---- MODULE Spec2Model ----
(***************************************************************************)
(* Model of the three replay scripts under src/export_tests:               *)
(*   anthropic/python-http.py   raw HTTP via requests                      *)
(*   anthropic/python-sdk.py    the anthropic client library               *)
(*   openai/python-sdk.py       the openai client library                  *)
(* One behaviour fixes a script and a mocked endpoint and then runs the    *)
(* script NumRuns times, one process after the other, each process with    *)
(* its own environment value of the API key variable.                      *)
(* What the requests, anthropic, openai and json libraries do is modelled  *)
(* at the calls the scripts make of them.                                  *)
(***************************************************************************)
EXTENDS Integers, Sequences, FiniteSets, TLC

VARIABLES script, env, endpoint, libCred, sdkResp, cur, proc

vars == <<script, env, endpoint, libCred, sdkResp, cur, proc>>

(* ------------------------------ bounds --------------------------------- *)
NumRuns == 2
MaxFields == 2

Runs == 1..NumRuns

(* ------------------------- JSON values and text ------------------------ *)
\* A decoded JSON value (a Python object): a scalar or a dict whose items
\* keep their insertion order.
Null == [t |-> "null", v |-> "", items |-> <<>>]
Num(n) == [t |-> "num", v |-> n, items |-> <<>>]
Str(s) == [t |-> "str", v |-> s, items |-> <<>>]
Obj(its) == [t |-> "obj", v |-> "", items |-> its]
Item(k, x) == [k |-> k, x |-> x]

\* JSON text is a sequence of tokens.
T(tok, v) == [tok |-> tok, v |-> v]
LB == T("{", "")
RB == T("}", "")
COLON == T(":", "")
COMMA == T(",", "")
NL == T("nl", "")
SP == T("sp", "")
IsSpace(tk) == tk.tok \in {"nl", "sp"}

RECURSIVE Spaces(_)
Spaces(n) == IF n <= 0 THEN <<>> ELSE <<SP>> \o Spaces(n - 1)

\* json.dumps(value, indent=indent): indent < 0 stands for the most compact
\* form (no whitespace at all), the form the mocked endpoint puts on the wire.
RECURSIVE Dumps(_, _, _)
RECURSIVE DumpItems(_, _, _, _)
DumpItems(its, i, indent, level) ==
    IF i > Len(its) THEN <<>>
    ELSE (IF indent >= 0 THEN <<NL>> \o Spaces(indent * level) ELSE <<>>)
         \o <<T("str", its[i].k), COLON>>
         \o (IF indent >= 0 THEN <<SP>> ELSE <<>>)
         \o Dumps(its[i].x, indent, level)
         \o (IF i < Len(its) THEN <<COMMA>> ELSE <<>>)
         \o DumpItems(its, i + 1, indent, level)
Dumps(val, indent, level) ==
    IF val.t # "obj" THEN <<T(val.t, val.v)>>
    ELSE IF Len(val.items) = 0 THEN <<LB, RB>>
    ELSE <<LB>> \o DumpItems(val.items, 1, indent, level + 1)
         \o (IF indent >= 0 THEN <<NL>> \o Spaces(indent * level) ELSE <<>>)
         \o <<RB>>

\* dict[k] = x: an existing key keeps its position and takes the new value.
PutItem(its, k, x) ==
    IF \E i \in 1..Len(its) : its[i].k = k
    THEN [i \in 1..Len(its) |-> IF its[i].k = k THEN Item(k, x) ELSE its[i]]
    ELSE Append(its, Item(k, x))

Drop(s, n) == SubSeq(s, n + 1, Len(s))
ParseFail == [ok |-> FALSE, val |-> Null, rest |-> <<>>]

\* The JSON decoder on whitespace-free tokens: the result carries the value
\* and the tokens left over.
RECURSIVE ParseValue(_)
RECURSIVE ParseMembers(_, _)
ParseMembers(ts, acc) ==
    IF Len(ts) < 3 \/ ts[1].tok # "str" \/ ts[2] # COLON THEN ParseFail
    ELSE LET r == ParseValue(Drop(ts, 2)) IN
         IF ~r.ok \/ Len(r.rest) = 0 THEN ParseFail
         ELSE LET acc2 == PutItem(acc, ts[1].v, r.val) IN
              IF r.rest[1] = RB
              THEN [ok |-> TRUE, val |-> Obj(acc2), rest |-> Drop(r.rest, 1)]
              ELSE IF r.rest[1] = COMMA THEN ParseMembers(Drop(r.rest, 1), acc2)
              ELSE ParseFail
ParseValue(ts) ==
    IF Len(ts) = 0 THEN ParseFail
    ELSE IF ts[1].tok \in {"null", "num", "str"}
    THEN [ok |-> TRUE,
          val |-> [t |-> ts[1].tok, v |-> ts[1].v, items |-> <<>>],
          rest |-> Drop(ts, 1)]
    ELSE IF ts[1] = LB
    THEN IF Len(ts) >= 2 /\ ts[2] = RB
         THEN [ok |-> TRUE, val |-> Obj(<<>>), rest |-> Drop(ts, 2)]
         ELSE ParseMembers(Drop(ts, 1), <<>>)
    ELSE ParseFail

\* json.loads(text) / Response.json(): whitespace between tokens is skipped,
\* and text after the value is an error.
JsonLoads(text) ==
    LET r == ParseValue(SelectSeq(text, LAMBDA tk : ~IsSpace(tk))) IN
    IF r.ok /\ Len(r.rest) = 0 THEN [ok |-> TRUE, val |-> r.val]
    ELSE [ok |-> FALSE, val |-> Null]

\* The JSON value a Python object stands for: dicts compare by key, whatever
\* the order of their items.
RECURSIVE Canon(_)
Canon(val) ==
    LET ks == {val.items[i].k : i \in 1..Len(val.items)} IN
    [t |-> val.t, v |-> val.v,
     m |-> [k \in ks |->
              Canon(val.items[CHOOSE i \in 1..Len(val.items) :
                                 val.items[i].k = k].x)]]

(* --------------------------- the environment --------------------------- *)
Scripts == {"anthropic_http", "anthropic_sdk", "openai_sdk"}

\* os.environ.get(NAME) gives None for an unset variable.
None == "None"
KeyVals == {None, "", "sk-1", "sk-2"}
\* Python truth value of a key: None and the empty string are false.
Truthy(k) == k \notin {None, ""}

\* The bodies the mocked endpoint answers with: JSON objects of at most
\* MaxFields members.
BodyKeys == {"id", "stop_reason", "error"}
FieldValues == {Null, Obj(<<Item("id", Num("1"))>>)}
ItemSeqs ==
    {s \in UNION {[1..n -> [k : BodyKeys, x : FieldValues]] : n \in 0..MaxFields} :
        \A i, j \in 1..Len(s) : s[i].k = s[j].k => i = j}
Bodies == {Obj(s) : s \in ItemSeqs}
ErrorBody == Obj(<<Item("error", Str("a"))>>)
Malformed == <<LB>>

\* What the endpoint does with the one request of a run.
\* "body" is the JSON value the mock was set up with, "text" what it puts on
\* the wire, "wellformed" whether that text is JSON at all.
Endpoints ==
    {[kind |-> "http", status |-> 200, wellformed |-> TRUE,
      body |-> b, text |-> Dumps(b, 0 - 1, 0)] : b \in Bodies}
    \cup {[kind |-> "http", status |-> 200, wellformed |-> FALSE,
           body |-> Null, text |-> Malformed]}
    \cup {[kind |-> "http", status |-> st, wellformed |-> TRUE,
           body |-> ErrorBody, text |-> Dumps(ErrorBody, 0 - 1, 0)] :
             st \in {400, 500}}
    \cup {[kind |-> "transport", status |-> 0, wellformed |-> FALSE,
           body |-> Null, text |-> <<>>]}

\* The model object client.messages.create returns: one that has to_dict, or
\* one (of an older library) that does not.
SdkRespKinds == {"to_dict", "legacy"}

\* The decoder, tabulated once over the texts the endpoint answers with.
LoadsTable == [t \in {e.text : e \in Endpoints} |-> JsonLoads(t)]
Loads(text) ==
    IF text \in DOMAIN LoadsTable THEN LoadsTable[text] ELSE JsonLoads(text)

(* ------------------------- the request literals ------------------------ *)
HttpUrl == "https://api.anthropic.com/v1/messages"

HttpHeaders(key) ==
    [content_type |-> "application/json",
     x_api_key |-> key,
     anthropic_version |-> "2023-06-01"]

HttpBody ==
    [model |-> "claude-3-7-sonnet-latest",
     messages |-> << [role |-> "user",
                      content |-> << [type |-> "text", text |-> "test"] >>] >>,
     system |-> "You are a helpful, harmless, and honest AI assistant.",
     max_tokens |-> 4096]

\* The keyword arguments of client.messages.create.
SdkKwargs ==
    [model |-> "claude-3-7-sonnet-latest",
     messages |-> << [role |-> "user",
                      content |-> << [type |-> "text", text |-> "test"] >>] >>,
     system |-> "You are a helpful, harmless, and honest AI assistant.",
     max_tokens |-> 4096]

\* The payload of client.responses.create (the assistant text has U+2019 for
\* the apostrophe in the source).
OpenAIPayload ==
    [model |-> "gpt-5",
     input |-> <<
        [id |-> "msg_0", type |-> "message", role |-> "system",
         content |-> << [type |-> "input_text",
                         text |-> "You are a helpful, harmless, and honest AI assistant. Respond in markdown."] >>],
        [id |-> "msg_1", type |-> "message", role |-> "user",
         content |-> << [type |-> "input_text", text |-> "test"] >>],
        [id |-> "rs_68d39a4339448190a582291f687b00ea", type |-> "reasoning",
         summary |-> << [type |-> "summary_text", text |-> ""] >>],
        [id |-> "msg_68d39a4358588190adda53c94e3054f5", type |-> "message",
         role |-> "assistant",
         content |-> << [type |-> "output_text",
                         text |-> "Hi! I'm here and working. How can I help you today?"] >>] >>,
     max_output_tokens |-> 8000,
     reasoning |-> [effort |-> "low", summary |-> "detailed"]]

(* --------------------------- process state ----------------------------- *)
NoClient == [made |-> FALSE, api_key |-> None]
NoResponse == [status_code |-> 0, text |-> <<>>, cls |-> "", fields |-> <<>>]

Fresh ==
    [pc |-> "module", apiKey |-> None, client |-> NoClient,
     headers |-> HttpHeaders(None), body |-> <<>>,
     response |-> NoResponse, data |-> Null, stdout |-> <<>>,
     exitCode |-> 0 - 1, error |-> "", requests |-> <<>>, creates |-> <<>>,
     steps |-> <<>>, envReads |-> 0]

Init ==
    /\ script \in Scripts
    /\ env \in {e \in [Runs -> KeyVals] : \A r \in Runs : r > 1 => e[r] = None}
    /\ endpoint \in Endpoints
    /\ libCred \in (IF script = "anthropic_http" THEN {FALSE} ELSE BOOLEAN)
    /\ sdkResp \in (IF script = "anthropic_sdk" THEN SdkRespKinds ELSE {"to_dict"})
    /\ cur = 1
    /\ proc = [r \in Runs |-> Fresh]

At(r, s, label) == r = cur /\ script = s /\ proc[r].pc = label

Set(r, rec) ==
    /\ proc' = [proc EXCEPT ![r] = rec]
    /\ UNCHANGED <<script, env, endpoint, libCred, sdkResp, cur>>

\* Mutant: the exception is swallowed and the process exits normally.
Raise_Swallowed(p, err) == [p EXCEPT !.pc = "failed", !.exitCode = 0, !.error = err]

\* An exception nobody catches: the process dies with a traceback.
Raise(p, err) == [p EXCEPT !.pc = "failed", !.exitCode = 1, !.error = err]

(* ---------------------- anthropic/python-http.py ----------------------- *)
\* Mutant: the module does not read the variable before run() starts.
Load_http_NoRead(r) ==
    /\ At(r, "anthropic_http", "module")
    /\ Set(r, [proc[r] EXCEPT !.pc = "run"])

Load_http(r) ==
    /\ At(r, "anthropic_http", "module")
    /\ Set(r, [proc[r] EXCEPT !.apiKey = env[r],
                              !.envReads = @ + 1,
                              !.steps = Append(@, "acquire"),
                              !.pc = "run"])

\* Mutant: only an unset variable is rejected, an empty one passes.
CheckKey_http_NoneOnly(r) ==
    /\ At(r, "anthropic_http", "run")
    /\ Set(r, IF proc[r].apiKey = None
              THEN Raise(proc[r], "RuntimeError")
              ELSE [proc[r] EXCEPT !.pc = "build"])

CheckKey_http(r) ==
    /\ At(r, "anthropic_http", "run")
    /\ Set(r, IF ~Truthy(proc[r].apiKey)
              THEN Raise(proc[r], "RuntimeError")
              ELSE [proc[r] EXCEPT !.pc = "build"])

\* Mutant: the system prompt is left out of the body.
BuildRequest_http_NoSystem(r) ==
    /\ At(r, "anthropic_http", "build")
    /\ Set(r, [proc[r] EXCEPT !.headers = HttpHeaders(proc[r].apiKey),
                              !.body = [HttpBody EXCEPT !.system = ""],
                              !.steps = Append(@, "build"),
                              !.pc = "post"])

\* Mutant: the key is also written into the body.
BuildRequest_http_KeyInBody(r) ==
    /\ At(r, "anthropic_http", "build")
    /\ Set(r, [proc[r] EXCEPT !.headers = HttpHeaders(proc[r].apiKey),
                              !.body = [HttpBody EXCEPT !.system = proc[r].apiKey],
                              !.steps = Append(@, "build"),
                              !.pc = "post"])

BuildRequest_http(r) ==
    /\ At(r, "anthropic_http", "build")
    /\ Set(r, [proc[r] EXCEPT !.headers = HttpHeaders(proc[r].apiKey),
                              !.body = HttpBody,
                              !.steps = Append(@, "build"),
                              !.pc = "post"])

\* Mutant: a connection error is answered by posting once more.
Post_http_Retry(r) ==
    /\ At(r, "anthropic_http", "post")
    /\ LET req == [url |-> HttpUrl, headers |-> proc[r].headers,
                   json |-> proc[r].body]
           sent == [proc[r] EXCEPT !.requests = Append(@, req),
                                   !.steps = Append(@, "send")]
       IN Set(r, IF endpoint.kind = "transport"
                 THEN Raise([sent EXCEPT !.requests = Append(@, req)],
                            "ConnectionError")
                 ELSE [sent EXCEPT !.response.status_code = endpoint.status,
                                   !.response.text = endpoint.text,
                                   !.pc = "raise_for_status"])

Post_http(r) ==
    /\ At(r, "anthropic_http", "post")
    /\ LET sent == [proc[r] EXCEPT
                      !.requests = Append(@, [url |-> HttpUrl,
                                              headers |-> proc[r].headers,
                                              json |-> proc[r].body]),
                      !.steps = Append(@, "send")]
       IN Set(r, IF endpoint.kind = "transport"
                 THEN Raise(sent, "ConnectionError")
                 ELSE [sent EXCEPT !.response.status_code = endpoint.status,
                                   !.response.text = endpoint.text,
                                   !.pc = "raise_for_status"])

\* Mutant: the status is not looked at.
RaiseForStatus_http_Ignored(r) ==
    /\ At(r, "anthropic_http", "raise_for_status")
    /\ Set(r, [proc[r] EXCEPT !.pc = "json"])

RaiseForStatus_http(r) ==
    /\ At(r, "anthropic_http", "raise_for_status")
    /\ Set(r, IF proc[r].response.status_code >= 400
              THEN Raise(proc[r], "HTTPError")
              ELSE [proc[r] EXCEPT !.pc = "json"])

Json_http(r) ==
    /\ At(r, "anthropic_http", "json")
    /\ LET d == Loads(proc[r].response.text)
       IN Set(r, IF ~d.ok
                 THEN Raise(proc[r], "JSONDecodeError")
                 ELSE [proc[r] EXCEPT !.data = d.val,
                                      !.steps = Append(@, "decode"),
                                      !.pc = "print"])

\* Mutant: a run after the first prints nothing new when the previous run
\* has printed (as if the output were remembered between runs).
Print_http_Remembered(r) ==
    /\ At(r, "anthropic_http", "print")
    /\ Set(r, [proc[r] EXCEPT
                  !.stdout = IF r > 1 /\ proc[r - 1].stdout # <<>>
                             THEN @ ELSE Append(@, Dumps(proc[r].data, 2, 0)),
                  !.steps = Append(@, "print"),
                  !.exitCode = 0,
                  !.pc = "done"])

Print_http(r) ==
    /\ At(r, "anthropic_http", "print")
    /\ Set(r, [proc[r] EXCEPT !.stdout = Append(@, Dumps(proc[r].data, 2, 0)),
                              !.steps = Append(@, "print"),
                              !.exitCode = 0,
                              !.pc = "done"])

(* ------------------------- the client libraries ------------------------ *)
\* Both clients are constructed without max_retries: the library default.
LibMaxRetries == 2
\* The statuses a client re-sends the request after.
Retryable(st) == st \in {408, 409, 429} \/ st >= 500

\* anthropic.Anthropic() without api_key.
NoArg == "<no api_key>"

\* The fields the response models declare, in declaration order, and those of
\* them that default to None.
AnthropicDeclared == <<"id", "stop_reason">>
OpenAIDeclared == <<"id", "error">>
Defaulted == {"stop_reason", "error"}

Has(its, k) == \E i \in 1..Len(its) : its[i].k = k
Get(its, k) == its[CHOOSE i \in 1..Len(its) : its[i].k = k].x
InSeq(sq, k) == \E i \in 1..Len(sq) : sq[i] = k
Extras(its, declared) == SelectSeq(its, LAMBDA it : ~InSeq(declared, it.k))

\* Message.to_dict(): the fields that were set, declared ones first.
RECURSIVE ToDictItems(_, _, _)
ToDictItems(its, declared, i) ==
    IF i > Len(declared) THEN Extras(its, declared)
    ELSE (IF Has(its, declared[i])
          THEN <<Item(declared[i], Get(its, declared[i]))>> ELSE <<>>)
         \o ToDictItems(its, declared, i + 1)
\* Mutant: only the declared fields are kept.
ToDict_DeclaredOnly(resp) ==
    Obj(SelectSeq(ToDictItems(resp.fields, AnthropicDeclared, 1),
                  LAMBDA it : InSeq(AnthropicDeclared, it.k)))

ToDict(resp) == Obj(ToDictItems(resp.fields, AnthropicDeclared, 1))

\* Response.model_dump(): every declared field, an unset one with its default,
\* then the undeclared ones.
RECURSIVE ModelDumpItems(_, _, _)
ModelDumpItems(its, declared, i) ==
    IF i > Len(declared) THEN Extras(its, declared)
    ELSE (IF Has(its, declared[i])
          THEN <<Item(declared[i], Get(its, declared[i]))>>
          ELSE IF declared[i] \in Defaulted
          THEN <<Item(declared[i], Null)>> ELSE <<>>)
         \o ModelDumpItems(its, declared, i + 1)
ModelDump(resp) == Obj(ModelDumpItems(resp.fields, OpenAIDeclared, 1))

\* The client was given a non-empty key by the script.
HasKey(client) == client.api_key # NoArg /\ Truthy(client.api_key)

RECURSIVE Repeat(_, _)
Repeat(x, n) == IF n <= 0 THEN <<>> ELSE <<x>> \o Repeat(x, n - 1)

\* One create call of a client: without a usable credential the library
\* raises before any request; a connection error or a retryable status is
\* re-sent LibMaxRetries times before the error is raised.
SdkCreate(p, kwargs) ==
    LET called == [p EXCEPT !.creates = Append(@, kwargs)]
        req == [auth |-> p.client.api_key, json |-> kwargs]
        again == endpoint.kind = "transport" \/ Retryable(endpoint.status)
        sent == [called EXCEPT
                    !.requests = @ \o Repeat(req, IF again THEN 1 + LibMaxRetries ELSE 1),
                    !.steps = Append(@, "send")]
        d == Loads(endpoint.text)
    IN  IF ~(HasKey(p.client) \/ libCred)
        THEN Raise(called, "AuthenticationError")
        ELSE IF endpoint.kind = "transport" THEN Raise(sent, "APIConnectionError")
        ELSE IF endpoint.status >= 400 THEN Raise(sent, "APIStatusError")
        ELSE IF ~d.ok \/ d.val.t # "obj" THEN Raise(sent, "JSONDecodeError")
        ELSE [sent EXCEPT !.response.status_code = endpoint.status,
                          !.response.text = endpoint.text,
                          !.response.cls = sdkResp,
                          !.response.fields = d.val.items,
                          !.pc = "created"]

(* ----------------------- anthropic/python-sdk.py ----------------------- *)
\* Mutant: the client always gets api_key, whatever the variable holds.
Load_sdk_AlwaysArg(r) ==
    /\ At(r, "anthropic_sdk", "module")
    /\ Set(r, [proc[r] EXCEPT !.apiKey = env[r],
                              !.envReads = @ + 1,
                              !.steps = Append(@, "acquire"),
                              !.client = [made |-> TRUE, api_key |-> env[r]],
                              !.pc = "run"])

Load_sdk(r) ==
    /\ At(r, "anthropic_sdk", "module")
    /\ Set(r, [proc[r] EXCEPT !.apiKey = env[r],
                              !.envReads = @ + 1,
                              !.steps = Append(@, "acquire"),
                              !.client = [made |-> TRUE,
                                          api_key |-> IF Truthy(env[r])
                                                      THEN env[r] ELSE NoArg],
                              !.pc = "run"])

Create_sdk(r) ==
    /\ At(r, "anthropic_sdk", "run")
    /\ Set(r, SdkCreate([proc[r] EXCEPT !.steps = Append(@, "build")], SdkKwargs))

ToDict_sdk(r) ==
    /\ At(r, "anthropic_sdk", "created")
    /\ Set(r, [proc[r] EXCEPT
                  !.data = IF proc[r].response.cls = "to_dict"
                           THEN ToDict(proc[r].response)
                           ELSE Obj(proc[r].response.fields),
                  !.steps = Append(@, "decode"),
                  !.pc = "print"])

\* json.dumps raises TypeError for an object that is no dict, list or scalar.
Print_sdk(r) ==
    /\ At(r, "anthropic_sdk", "print")
    /\ Set(r, IF proc[r].response.cls = "legacy"
              THEN Raise(proc[r], "TypeError")
              ELSE [proc[r] EXCEPT
                       !.stdout = Append(@, Dumps(proc[r].data, 2, 0)),
                       !.steps = Append(@, "print"),
                       !.exitCode = 0,
                       !.pc = "done"])

(* ------------------------- openai/python-sdk.py ------------------------ *)
\* OpenAI(api_key=None) looks the variable up again and raises without it.
Load_openai(r) ==
    /\ At(r, "openai_sdk", "module")
    /\ LET read == [proc[r] EXCEPT !.apiKey = env[r],
                                   !.envReads = @ + 1,
                                   !.steps = Append(@, "acquire")]
       IN Set(r, IF env[r] = None
                 THEN Raise(read, "OpenAIError")
                 ELSE [read EXCEPT !.client = [made |-> TRUE, api_key |-> env[r]],
                                   !.pc = "run"])

BuildPayload_openai(r) ==
    /\ At(r, "openai_sdk", "run")
    /\ Set(r, [proc[r] EXCEPT !.body = OpenAIPayload,
                              !.steps = Append(@, "build"),
                              !.pc = "create"])

Create_openai(r) ==
    /\ At(r, "openai_sdk", "create")
    /\ Set(r, SdkCreate(proc[r], proc[r].body))

Print_openai(r) ==
    /\ At(r, "openai_sdk", "created")
    /\ LET dumped == ModelDump(proc[r].response)
       IN Set(r, [proc[r] EXCEPT !.data = dumped,
                                 !.stdout = Append(@, Dumps(dumped, 2, 0)),
                                 !.steps = @ \o <<"decode", "print">>,
                                 !.exitCode = 0,
                                 !.pc = "done"])

Terminal(r) == proc[r].pc \in {"done", "failed"}

\* The script is invoked again, with some value of the key variable in its
\* environment, once the previous process has exited.
NextRun ==
    /\ cur < NumRuns
    /\ Terminal(cur)
    /\ cur' = cur + 1
    /\ \E k \in KeyVals : env' = [env EXCEPT ![cur + 1] = k]
    /\ UNCHANGED <<script, endpoint, libCred, sdkResp, proc>>

Step(r) ==
    \/ Load_http(r)
    \/ CheckKey_http(r)
    \/ BuildRequest_http(r)
    \/ Post_http(r)
    \/ RaiseForStatus_http(r)
    \/ Json_http(r)
    \/ Print_http(r)
    \/ Load_sdk(r)
    \/ Create_sdk(r)
    \/ ToDict_sdk(r)
    \/ Print_sdk(r)
    \/ Load_openai(r)
    \/ BuildPayload_openai(r)
    \/ Create_openai(r)
    \/ Print_openai(r)

Next == (\E r \in Runs : Step(r)) \/ NextRun

Spec == Init /\ [][Next]_vars

\* The statements of a script run one after the other without waiting for
\* anything but the network call, which the endpoint always answers or fails:
\* the process that is running and can take a step takes it. Starting
\* another run is up to the user.
FairSpec == Spec /\ WF_vars(\E r \in Runs : Step(r))

(* ------------------------------ properties ----------------------------- *)
Started(r) == r <= cur
KeyAbsent(r) == env[r] \in {None, ""}
NetCalls(r) == Len(proc[r].requests)
EndpointFails == endpoint.kind = "transport" \/ endpoint.status >= 400
EndpointOk == endpoint.kind = "http" /\ endpoint.status = 200 /\ endpoint.wellformed
Succeeded(r) ==
    proc[r].pc = "done" /\ proc[r].exitCode = 0 /\ Len(proc[r].stdout) = 1
\* The JSON value the text written to standard output decodes to.
Printed(r) == Canon(Loads(proc[r].stdout[1]).val)

\* C1: in the raw-HTTP script a run whose ANTHROPIC_API_KEY is unset or
\* empty issues no network call, never gets past the key check, and when
\* it has ended it has ended with the configuration error.
C1_NoCallWithoutKey ==
    \A r \in Runs :
        (script = "anthropic_http" /\ Started(r) /\ KeyAbsent(r)) =>
            /\ NetCalls(r) = 0
            /\ proc[r].pc \in {"module", "run", "failed"}
            /\ proc[r].pc = "failed" =>
                 (proc[r].error = "RuntimeError" /\ proc[r].exitCode = 1)

C1_Witness ==
    \E r1, r2 \in Runs :
        /\ script = "anthropic_http"
        /\ env[r1] = None /\ env[r2] = ""
        /\ Started(r2) /\ r1 < r2
        /\ proc[r1].error = "RuntimeError" /\ proc[r2].error = "RuntimeError"

\* C2: when the endpoint answers 4xx/5xx or the transport fails, a run
\* never succeeds and writes nothing to standard output, and a run that has
\* made its call ends only as a failure; whatever is on standard output was
\* written by a run whose call was answered with 200.
C2_FailedCallPrintsNothing ==
    \A r \in Runs :
        /\ EndpointFails =>
              /\ proc[r].stdout = <<>>
              /\ proc[r].pc # "done"
              /\ proc[r].exitCode # 0
              /\ (Terminal(r) /\ NetCalls(r) > 0) => proc[r].exitCode = 1
        /\ proc[r].stdout # <<>> =>
              (NetCalls(r) >= 1 /\ endpoint.kind = "http" /\ endpoint.status = 200)

C2_Witness ==
    \E r1, r2 \in Runs :
        /\ endpoint.kind = "http" /\ endpoint.status >= 400
        /\ r1 # r2
        /\ NetCalls(r1) > 0 /\ proc[r1].pc = "failed" /\ proc[r1].stdout = <<>>
        /\ NetCalls(r2) > 0 /\ proc[r2].pc = "failed"

WithDefaults(b) ==
    LET c == Canon(b)
        ks == DOMAIN c.m \cup {OpenAIDeclared[i] : i \in
                 {j \in 1..Len(OpenAIDeclared) : OpenAIDeclared[j] \in Defaulted}}
    IN [c EXCEPT !.m = [k \in ks |-> IF k \in DOMAIN c.m THEN c.m[k]
                                     ELSE Canon(Null)]]

Literal ==
    IF script = "anthropic_http" THEN HttpBody
    ELSE IF script = "anthropic_sdk" THEN SdkKwargs
    ELSE OpenAIPayload

\* C4: in every run of every script, every request handed to the network
\* carries the payload literal of the script, the arguments of every client
\* call are that literal, and the payload a script holds between building it
\* and sending it is that literal.
C4_PayloadIsLiteral ==
    \A r \in Runs :
        /\ \A i \in 1..NetCalls(r) : proc[r].requests[i].json = Literal
        /\ \A i \in 1..Len(proc[r].creates) : proc[r].creates[i] = Literal
        /\ (script # "anthropic_sdk" /\ Len(proc[r].steps) >= 2) =>
              proc[r].body = Literal

C4_Witness ==
    \E r \in Runs :
        /\ r > 1 /\ NetCalls(r - 1) >= 1 /\ NetCalls(r) >= 1
        /\ env[r] # env[r - 1]
        /\ script = "openai_sdk"

NoCredential(r) ==
    IF script = "anthropic_http" THEN KeyAbsent(r)
    ELSE IF script = "anthropic_sdk" THEN KeyAbsent(r) /\ ~libCred
    ELSE env[r] = None \/ (env[r] = "" /\ ~libCred)

CallFailed(r) == NetCalls(r) > 0 /\ EndpointFails

ExitCodes ==
    \A r \in Runs :
        /\ proc[r].exitCode \in {0 - 1, 0, 1}
        /\ Terminal(r) <=> proc[r].exitCode # 0 - 1
        /\ (Started(r) /\ Terminal(r) /\ (NoCredential(r) \/ CallFailed(r))) =>
              (proc[r].exitCode = 1 /\ proc[r].error # "")
        /\ proc[r].exitCode = 0 =>
              (proc[r].pc = "done" /\ Len(proc[r].stdout) = 1
               /\ proc[r].error = "")

Order == <<"acquire", "build", "send", "decode", "print">>

C9_KeylessClient ==
    \A r \in Runs :
        (script = "anthropic_sdk" /\ proc[r].pc # "module") =>
            /\ proc[r].client.made
            /\ proc[r].client.api_key = (IF KeyAbsent(r) THEN NoArg ELSE env[r])
            /\ proc[r].error \notin {"RuntimeError", "OpenAIError"}
            /\ proc[r].pc # "run" => Len(proc[r].creates) = 1

C9_Witness ==
    \E r1, r2 \in Runs :
        /\ script = "anthropic_sdk"
        /\ env[r1] = "" /\ Started(r1) /\ Len(proc[r1].creates) = 1
        /\ proc[r1].client.api_key = NoArg
        /\ env[r2] = "sk-2" /\ Len(proc[r2].creates) = 1
        /\ proc[r2].client.api_key = "sk-2"

TextsOf(out) == UNION {{out[i][j].v : j \in 1..Len(out[i])} : i \in 1..Len(out)}
Jsons(r) == [i \in 1..NetCalls(r) |-> proc[r].requests[i].json]

\* C10: the key is in no text written to standard output; in the raw-HTTP
\* script every request carries the key in the x-api-key header and in no
\* other header; and two ended runs with (possibly different) non-empty
\* keys have sent the same request bodies and printed the same output.
C10_KeyStaysInHeader ==
    /\ \A r \in Runs :
          /\ Truthy(env[r]) => env[r] \notin TextsOf(proc[r].stdout)
          /\ script = "anthropic_http" =>
                \A i \in 1..NetCalls(r) :
                    LET h == proc[r].requests[i].headers IN
                    /\ h.x_api_key = env[r]
                    /\ h.content_type # env[r]
                    /\ h.anthropic_version # env[r]
    /\ \A r1, r2 \in Runs :
          (Truthy(env[r1]) /\ Truthy(env[r2]) /\ Terminal(r1) /\ Terminal(r2)) =>
              /\ Jsons(r1) = Jsons(r2)
              /\ proc[r1].creates = proc[r2].creates
              /\ proc[r1].stdout = proc[r2].stdout

C10_Witness ==
    \E r1, r2 \in Runs :
        /\ script = "anthropic_http"
        /\ env[r1] = "sk-1" /\ env[r2] = "sk-2"
        /\ Succeeded(r1) /\ Succeeded(r2)
        /\ proc[r1].requests[1].headers.x_api_key = "sk-1"
        /\ proc[r2].requests[1].headers.x_api_key = "sk-2"
====
